---------------------------- MODULE Spec2Model ----------------------------
(* Model of the trie-based search logger (SearchLogger, version 1) and    *)
(* its in-memory gateway MockPostgresDB.                                   *)
(*                                                                         *)
(* Words are sequences of one-character strings.                           *)
(*                                                                         *)
(* Time is counted in units of 100ms and kept relative to the present:     *)
(* the lastSeen of a node is the time that has passed since time.Now() was *)
(* stored in it, so that lastSeen.Before(now - timeout) reads              *)
(* lastSeen > Timeout.  The code compares a lastSeen with nothing but the  *)
(* cutoff, so times further back than LongAgo are not told apart and      *)
(* the clock can run without a bound.  The zero time.Time is ZeroTime.     *)
(*                                                                         *)
(* A nil *int64 dbID is 0; record ids start at 1 as in NewMockPostgresDB.  *)
(* The FirstSearchedAt / LastUpdatedAt columns of a record are never read  *)
(* by the engine and are not part of the state.                            *)
EXTENDS Naturals, Integers, Sequences, FiniteSets, TLC

----------------------------------------------------------------------------
(* Bounds *)

MaxLen == 3

MaxSubmits == 3

(* The calls of LogSearch in the runs that go statement by statement *)
MaxConcurrent == 2

(* The engines constructed on the store the first engine leaves behind *)
MaxRestarts == 1

(* Configuration: completion timeout of 200ms, in units of 100ms *)
Timeout == 2

(* time.Time{}: the lastSeen of a node that was never searched *)
ZeroTime == -1

(* Elapsed times from here on are not told apart *)
LongAgo == Timeout + 2

Letters == {"a", "b"}

----------------------------------------------------------------------------
(* Strings *)

RECURSIVE SeqsUpTo(_)
SeqsUpTo(n) ==
    IF n = 0 THEN {<<>>}
    ELSE LET S == SeqsUpTo(n - 1)
         IN  S \cup {Append(s, c) : s \in {x \in S : Len(x) = n - 1}, c \in Letters}

(* The words typed: the chain a, aa, aaa, ... up to MaxLen, and ab, which  *)
(* shares the node of a with the chain without being a prefix of it.       *)
Words ==
    {w \in SeqsUpTo(MaxLen) : w # <<>> /\ \A i \in 1..Len(w) : w[i] = "a"}
        \cup {<<"a", "b">>}

(* The arguments of LogSearch: the words, the empty string, and strings    *)
(* that normalization changes.                                             *)
RawInputs ==
    Words \cup {<<>>, <<" ">>, <<" ", "A", "B", " ">>}

IsPrefix(p, w) == Len(p) <= Len(w) /\ SubSeq(w, 1, Len(p)) = p

IsStrictPrefix(p, w) == Len(p) < Len(w) /\ SubSeq(w, 1, Len(p)) = p

LowerChar(c) ==
    CASE c = "A" -> "a"
      [] c = "B" -> "b"
      [] OTHER -> c

ToLower(s) == [i \in 1..Len(s) |-> LowerChar(s[i])]

RECURSIVE TrimLeft(_)
TrimLeft(s) ==
    IF s # <<>> /\ Head(s) = " " THEN TrimLeft(Tail(s)) ELSE s

RECURSIVE TrimRight(_)
TrimRight(s) ==
    IF s # <<>> /\ s[Len(s)] = " " THEN TrimRight(SubSeq(s, 1, Len(s) - 1)) ELSE s

TrimSpace(s) == TrimRight(TrimLeft(s))

Normalize(raw) == ToLower(TrimSpace(raw))

----------------------------------------------------------------------------
(* State *)

VARIABLES
    prefixTree,   \* node string -> TrieNode; the domain is the set of nodes
    searches,     \* MockPostgresDB.searches: id -> SearchRecord
    nextID,       \* MockPostgresDB.nextID
    sinceTick,    \* the time since the ticker last fired
    tickPending,  \* a tick is waiting in ticker.C
    lastErr,      \* the last LogSearch call returned an error
    stopChan,     \* stopChan is closed
    sweeperExited, \* flushCompletedWordToDBRoutine has returned
    \* What has happened so far (not state of the program):
    ncalls,       \* the number of LogSearch calls
    submitted,    \* word -> [n: the calls with this word, since: time since the last]
    growing,      \* each call was a longer word than the one before, made
                  \* less than the timeout after it
    shrinking,    \* each call was a strict prefix of the word of the one before
    extended,     \* the words A such that a word A is a strict prefix of was
                  \* submitted after A's last call, less than the timeout after it
    resubmitted,  \* the words submitted again at a later time
    everStored,   \* the words a sweep has stored
    storedSince,  \* the words a sweep has stored since their last call
    nempty,       \* the number of LogSearch calls with the empty string
    renamed,      \* the words the gateway has renamed a record to
    skipped,      \* the words a sweep has found timed out since their last
                  \* call and left alone as prefixes of a longer word
    everTyped,    \* the words of the calls of LogSearch, of this engine and
                  \* of the engines before it
    \* The gateway as a database that can refuse a write:
    rejects,      \* the words whose writes the gateway refuses at present
    \* What has happened to refused writes (not state of the program):
    failedRename, \* <<prefix, word>>: the rename of prefix to word was refused
    failedInsert, \* the words whose upsert a sweep saw refused
    storedBeside, \* the words stored by a sweep that saw an upsert refused
    \* The gateway called directly:
    dbCalls,      \* the number of calls
    dbResult,     \* the last call and what it returned
    \* Version 2:
    userSearches, \* MockPostgresDBV2.userSearches: key -> UserSearchRecord
    nextIDV2,     \* MockPostgresDBV2.nextID
    lastErrV2,    \* the last LogSearchV2 call returned an error
    \* What has happened in version 2 (not state of the program):
    ncallsV2,     \* the number of LogSearchV2 calls
    typedV2,      \* user -> the words of the calls of the user
    growingV2,    \* user -> each call of the user was a longer word than the
                  \* one before, which is a prefix of it
    callerV2,     \* the user of the last LogSearchV2 call, or "none"
    pcV2,         \* caller -> where its LogSearchV2 call is
    argV2,        \* caller -> the user and the word of its call
    existingV2,   \* caller -> existingWords, as its call has read them
    \* The goroutines of version 1, statement by statement:
    mutexWriter,  \* the goroutine that holds sl.mutex locked, or "none"
    mutexReaders, \* the goroutines that hold sl.mutex read-locked
    pc,           \* goroutine -> where it is
    arg,          \* caller -> the normalized word of its LogSearch call
    todo,         \* the sweeper's timedOutWords still to be visited, in order
    readResult,   \* what GetStoredSearches returned last
    \* What has happened (not state of the program):
    snapshot,     \* the trie and the store as they were when sl.mutex was
                  \* locked, or "none" when it is not locked
    \* Engines constructed on a store that holds words:
    restarts,     \* the number of them
    reloaded      \* the words the store held when the last was constructed

engine == <<prefixTree, searches, nextID, sinceTick, tickPending, lastErr>>

observed == <<ncalls, submitted, growing, shrinking, extended, resubmitted,
              everStored, storedSince, nempty, renamed, skipped, everTyped>>

faults == <<rejects, failedRename, failedInsert, storedBeside>>

shutdown == <<stopChan, sweeperExited>>

direct == <<dbCalls, dbResult>>

(* The state the engine of version 1 has no part in *)
version2 == <<userSearches, nextIDV2, lastErrV2, ncallsV2, typedV2, growingV2,
              callerV2, pcV2, argV2, existingV2>>

goroutines == <<mutexWriter, mutexReaders, pc, arg, todo, readResult, snapshot>>

restart == <<restarts, reloaded>>

outside == <<direct, version2, goroutines, restart>>

vars == <<engine, shutdown, observed, faults, outside>>

Users == {"user_1", "user_2"}

(* The goroutines that call LogSearch *)
Callers == {"caller_1", "caller_2"}

Goroutines == Callers \cup {"sweeper", "reader"}

Unlocked ==
    /\ mutexWriter = "none"
    /\ mutexReaders = {}
    /\ pc = [g \in Goroutines |-> "idle"]
    /\ arg = [c \in Callers |-> <<>>]
    /\ todo = <<>>
    /\ readResult = {}
    /\ snapshot = "none"

(* A caller that is not in a call of LogSearchV2 *)
NoCallV2 == [user |-> "none", word |-> <<>>]

NewMockPostgresDBV2 == [userSearches |-> <<>>, nextID |-> 1]

NewSearchLoggerV2 ==
    /\ userSearches = NewMockPostgresDBV2.userSearches
    /\ nextIDV2 = NewMockPostgresDBV2.nextID
    /\ lastErrV2 = FALSE
    /\ ncallsV2 = 0
    /\ typedV2 = [u \in Users |-> {}]
    /\ growingV2 = [u \in Users |-> TRUE]
    /\ callerV2 = "none"
    /\ pcV2 = [c \in Callers |-> "idle"]
    /\ argV2 = [c \in Callers |-> NoCallV2]
    /\ existingV2 = [c \in Callers |-> {}]

TrieNode == [isEndOfWord |-> FALSE, lastSeen |-> ZeroTime, dbID |-> 0]

NewMockPostgresDB == [searches |-> <<>>, nextID |-> 1]

(* sl.db: the gateway as the engine finds it *)
sl_db == [searches |-> searches, nextID |-> nextID, rejects |-> rejects]

NewSearchLogger ==
    /\ prefixTree = (<<>> :> TrieNode)
    /\ searches = NewMockPostgresDB.searches
    /\ nextID = NewMockPostgresDB.nextID
    /\ sinceTick = 0
    /\ tickPending = FALSE
    /\ lastErr = FALSE
    /\ stopChan = FALSE
    /\ sweeperExited = FALSE
    /\ ncalls = 0
    /\ submitted = <<>>
    /\ growing = TRUE
    /\ shrinking = TRUE
    /\ extended = {}
    /\ resubmitted = {}
    /\ everStored = {}
    /\ storedSince = {}
    /\ nempty = 0
    /\ renamed = {}
    /\ skipped = {}
    /\ everTyped = {}
    /\ rejects = {}
    /\ failedRename = {}
    /\ failedInsert = {}
    /\ storedBeside = {}
    /\ dbCalls = 0
    /\ dbResult = [op |-> "none"]
    /\ restarts = 0
    /\ reloaded = {}

Init == NewSearchLogger /\ NewSearchLoggerV2 /\ Unlocked

----------------------------------------------------------------------------
(* MockPostgresDB *)

SearchRecord(id, word) == [ID |-> id, Word |-> word, SearchCount |-> 1]

(* Mutant: the store is not searched for the word. *)
InsertOrReplace_NoLookup(db, word) ==
    {[id |-> db.nextID,
      db |-> [db EXCEPT !.searches = @ @@
                           (db.nextID :> SearchRecord(db.nextID, word)),
                        !.nextID = @ + 1]]}

(* InsertOrReplace: the id of the record holding the word if there is one  *)
(* (its count incremented), else a new record under nextID.                *)
InsertOrReplace(db, word) ==
    LET hits == {id \in DOMAIN db.searches : db.searches[id].Word = word}
    IN  IF hits # {}
        THEN {[id |-> id,
               db |-> [db EXCEPT !.searches[id].SearchCount = @ + 1]] : id \in hits}
        ELSE {[id |-> db.nextID,
               db |-> [db EXCEPT !.searches = @ @@
                                    (db.nextID :> SearchRecord(db.nextID, word)),
                                 !.nextID = @ + 1]]}

(* Update: rename the record with this id; an error when it is missing.    *)
Update(db, id, newWord) ==
    IF id \notin DOMAIN db.searches
    THEN [err |-> TRUE, db |-> db]
    ELSE [err |-> FALSE,
          db |-> [db EXCEPT !.searches[id].Word = newWord,
                            !.searches[id].SearchCount = @ + 1]]

(* The error results of the gateway.  MockPostgresDB itself refuses       *)
(* nothing but an Update of a missing id; the database it stands for can   *)
(* refuse any write, and db.rejects says which.  A refused write changes   *)
(* nothing.                                                                *)
GatewayUpdate(db, id, newWord) ==
    IF newWord \in db.rejects
    THEN [err |-> TRUE, db |-> db]
    ELSE Update(db, id, newWord)

GatewayInsertOrReplace(db, word) ==
    IF word \in db.rejects
    THEN {[id |-> 0, err |-> TRUE, db |-> db]}
    ELSE {[id |-> r.id, err |-> FALSE, db |-> r.db] : r \in InsertOrReplace(db, word)}

GetAllSearchedWords(db) == {db.searches[id].Word : id \in DOMAIN db.searches}

----------------------------------------------------------------------------
(* Trie helpers *)

Children(tree, p) ==
    {q \in DOMAIN tree : Len(q) = Len(p) + 1 /\ SubSeq(q, 1, Len(p)) = p}

(* Mutant: every node the loop creates takes the time of the call. *)
BuildPath_Stamped(tree, word) ==
    LET missing == {SubSeq(word, 1, i) : i \in 1..Len(word)} \ DOMAIN tree
    IN  tree @@ [p \in missing |-> [TrieNode EXCEPT !.lastSeen = 0]]

(* The traverse/build loop of LogSearch and buildTrieFromWord: every       *)
(* missing node on the path of word is created.                            *)
BuildPath(tree, word) ==
    LET missing == {SubSeq(word, 1, i) : i \in 1..Len(word)} \ DOMAIN tree
    IN  tree @@ [p \in missing |-> TrieNode]

(* Mutant: looks at the children only, not below them. *)
hasAnySearchedChildren(tree, p) ==
    \E q \in Children(tree, p) : tree[q].lastSeen # ZeroTime

(* Mutant: only the descendants that have not timed out count. *)
hasAnySearchedDescendants_Recent(tree, p) ==
    \E q \in DOMAIN tree :
        /\ IsStrictPrefix(p, q)
        /\ tree[q].lastSeen # ZeroTime
        /\ tree[q].lastSeen <= Timeout

RECURSIVE hasAnySearchedDescendants(_, _)
hasAnySearchedDescendants(tree, p) ==
    \E q \in Children(tree, p) :
        \/ tree[q].lastSeen # ZeroTime
        \/ hasAnySearchedDescendants(tree, q)

(* Mutant: the nil test of the navigation is inverted. *)
isPrefixOfAnyWord_Inverted(tree, word) ==
    IF \E i \in 1..Len(word) : SubSeq(word, 1, i) \in DOMAIN tree
    THEN FALSE
    ELSE hasAnySearchedDescendants(tree, word)

(* Mutant: any other searched word under the parent node counts. *)
isPrefixOfAnyWord_Siblings(tree, word) ==
    IF \E i \in 1..Len(word) : SubSeq(word, 1, i) \notin DOMAIN tree
    THEN FALSE
    ELSE \E q \in DOMAIN tree :
            /\ q # word
            /\ Len(q) >= Len(word)
            /\ SubSeq(q, 1, Len(word) - 1) = SubSeq(word, 1, Len(word) - 1)
            /\ tree[q].lastSeen # ZeroTime

(* Mutant: the lastSeen of the node of the word counts as well. *)
isPrefixOfAnyWord_Self(tree, word) ==
    IF \E i \in 1..Len(word) : SubSeq(word, 1, i) \notin DOMAIN tree
    THEN FALSE
    ELSE tree[word].lastSeen # ZeroTime \/ hasAnySearchedDescendants(tree, word)

isPrefixOfAnyWord(tree, word) ==
    IF \E i \in 1..Len(word) : SubSeq(word, 1, i) \notin DOMAIN tree
    THEN FALSE
    ELSE hasAnySearchedDescendants(tree, word)

(* Mutant: the children are examined, but not what is below them. *)
findAllTimedOutWords_Shallow(tree, currentWord, cutoffTime) ==
    {w \in {currentWord} \cup Children(tree, currentWord) :
        tree[w].lastSeen # ZeroTime /\ tree[w].lastSeen > cutoffTime}

(* Mutant: every word that was searched counts as timed out. *)
findAllTimedOutWords_NoCutoff(tree, currentWord, cutoffTime) ==
    {w \in DOMAIN tree :
        IsPrefix(currentWord, w) /\ tree[w].lastSeen # ZeroTime}

(* Mutant: a word counts as timed out one time unit late. *)
findAllTimedOutWords_Late(tree, currentWord, cutoffTime) ==
    {w \in DOMAIN tree :
        /\ IsPrefix(currentWord, w)
        /\ tree[w].lastSeen # ZeroTime
        /\ tree[w].lastSeen > cutoffTime + 1}

RECURSIVE findAllTimedOutWords(_, _, _)
findAllTimedOutWords(tree, currentWord, cutoffTime) ==
    (IF tree[currentWord].lastSeen # ZeroTime /\ tree[currentWord].lastSeen > cutoffTime
     THEN {currentWord} ELSE {})
    \cup UNION {findAllTimedOutWords(tree, q, cutoffTime) : q \in Children(tree, currentWord)}

----------------------------------------------------------------------------
(* SearchLogger *)

(* Mutant: the error of the gateway is dropped. *)
updateStoredWord_DropErr(db, id, newWord) ==
    [err |-> FALSE, db |-> GatewayUpdate(db, id, newWord).db]

updateStoredWord(db, id, newWord) == GatewayUpdate(db, id, newWord)

(* handleWordExtension from position i on; st = [tree, db, err].           *)
RECURSIVE handleWordExtensionFrom(_, _, _)
handleWordExtensionFrom(st, word, i) ==
    IF i > Len(word) THEN st
    ELSE
      LET prefix == SubSeq(word, 1, i) IN
      IF prefix \notin DOMAIN st.tree THEN st
      ELSE
        LET node == st.tree[prefix] IN
        IF node.isEndOfWord /\ node.dbID # 0 /\ i < Len(word)
        THEN LET r == updateStoredWord(st.db, node.dbID, word) IN
             IF r.err
             THEN [st EXCEPT !.err = TRUE]
             ELSE handleWordExtensionFrom(
                      [tree |-> [st.tree EXCEPT ![word].dbID = node.dbID,
                                                ![prefix].dbID = 0],
                       db   |-> r.db,
                       err  |-> FALSE],
                      word, i + 1)
        ELSE handleWordExtensionFrom(st, word, i + 1)

handleWordExtension(tree, db, word) ==
    handleWordExtensionFrom([tree |-> tree, db |-> db, err |-> FALSE], word, 1)

(* Mutant: the node takes the id returned with the error.                  *)
storeWordToDB_IgnoreErr(st, word) ==
    {[st EXCEPT !.tree[word].dbID = IF r.err THEN st.db.nextID ELSE r.id,
                !.db = r.db,
                !.log = @ \cup {word}] : r \in GatewayInsertOrReplace(st.db, word)}

(* The outcomes of storeWordToDB: the node takes the id the gateway gives, *)
(* or is left alone when the gateway returns an error.                     *)
(* st = [tree, db, log, failed]; log collects the words stored and failed  *)
(* the words the error was logged for.                                     *)
storeWordToDB(st, word) ==
    {IF r.err
     THEN [st EXCEPT !.failed = @ \cup {word}]
     ELSE [st EXCEPT !.tree[word].dbID = r.id,
                     !.db = r.db,
                     !.log = @ \cup {word}] : r \in GatewayInsertOrReplace(st.db, word)}

(* Mutant: the word is stored whether or not it is a prefix of another.    *)
processWord_NoPrefixCheck(st, word) ==
    IF st.tree[word].dbID # 0 THEN {st}
    ELSE storeWordToDB([st EXCEPT !.tree[word].isEndOfWord = TRUE], word)

(* Mutant: a word is stored whether or not its node holds a dbID.          *)
processWord_NoRefCheck(st, word) ==
    IF isPrefixOfAnyWord(st.tree, word) THEN {st}
    ELSE storeWordToDB([st EXCEPT !.tree[word].isEndOfWord = TRUE], word)

(* The body of the loop of processTimedOutWords for one timed-out word.    *)
processWord(st, word) ==
    IF st.tree[word].dbID # 0 THEN {st}
    ELSE IF isPrefixOfAnyWord(st.tree, word) THEN {st}
    ELSE storeWordToDB([st EXCEPT !.tree[word].isEndOfWord = TRUE], word)

(* Mutant: the loop ends at the first word the gateway refuses.            *)
RECURSIVE processInOrder_Abort(_, _)
processInOrder_Abort(sts, order) ==
    IF order = <<>> THEN sts
    ELSE UNION {IF n.failed # {} THEN {n}
                ELSE processInOrder_Abort({n}, Tail(order)) :
                    n \in UNION {processWord(st, Head(order)) : st \in sts}}

(* The loop over the map timedOutWords, in the order the iteration takes.  *)
RECURSIVE processInOrder(_, _)
processInOrder(sts, order) ==
    IF order = <<>> THEN sts
    ELSE processInOrder(UNION {processWord(st, Head(order)) : st \in sts},
                        Tail(order))

RECURSIVE Orders(_)
Orders(S) ==
    IF S = {} THEN {<<>>}
    ELSE UNION {{<<x>> \o o : o \in Orders(S \ {x})} : x \in S}

Period == Timeout \div 2

----------------------------------------------------------------------------
(* Actions *)

(* One time unit later *)
Later(t) == IF t = ZeroTime THEN ZeroTime ELSE IF t < LongAgo THEN t + 1 ELSE LongAgo

Typed == DOMAIN submitted

(* The time since the last call *)
SinceLastCall ==
    IF Typed = {} THEN LongAgo
    ELSE LET w == CHOOSE w \in Typed : \A v \in Typed : submitted[w].since <= submitted[v].since
         IN  submitted[w].since

(* A call with this word is added to what has happened *)
Submitted(word) ==
    /\ submitted' =
          [w \in Typed \cup {word} |->
              IF w # word THEN submitted[w]
              ELSE [n |-> IF w \in Typed THEN submitted[w].n + 1 ELSE 1, since |-> 0]]
    /\ growing' = (Typed = {} \/ (/\ growing
                                   /\ SinceLastCall < Timeout
                                   /\ \A v \in Typed : IsStrictPrefix(v, word)))
    /\ shrinking' = (Typed = {} \/ (/\ shrinking
                                     /\ \A v \in Typed : IsStrictPrefix(word, v)))
    /\ extended' = (extended \ {word}) \cup
                      {A \in Typed : IsStrictPrefix(A, word) /\ submitted[A].since < Timeout}
    /\ resubmitted' = resubmitted \cup
                      {w \in Typed \cap {word} : submitted[w].since > 0}
    /\ storedSince' = storedSince \ {word}
    /\ skipped' = skipped \ {word}
    /\ everTyped' = everTyped \cup {word}
    /\ UNCHANGED everStored

(* Mutant: no input counts as empty. *)
IsEmptyWord_Never(raw) == FALSE

(* if word == "": the test comes before the input is normalized *)
IsEmptyWord(raw) == raw = <<>>

LogSearch(raw) ==
    /\ ncalls < MaxSubmits
    /\ ncalls' = ncalls + 1
    /\ nempty' = nempty + (IF raw = <<>> THEN 1 ELSE 0)
    /\ IF IsEmptyWord(raw)
       THEN /\ lastErr' = FALSE
            /\ UNCHANGED <<prefixTree, searches, nextID>>
            /\ UNCHANGED <<submitted, growing, shrinking, extended, resubmitted,
                           everStored, storedSince, renamed, skipped,
                           everTyped, failedRename>>
       ELSE LET word == Normalize(raw)
                built == BuildPath(prefixTree, word)
                \* node.lastSeen = now
                seen == [built EXCEPT ![word].lastSeen = 0]
                r == handleWordExtension(seen, sl_db, word)
            IN  /\ prefixTree' = r.tree
                /\ searches' = r.db.searches
                /\ nextID' = r.db.nextID
                /\ lastErr' = r.err
                /\ Submitted(word)
                /\ renamed' = IF r.db.searches # searches
                              THEN renamed \cup {word} ELSE renamed
                /\ failedRename' =
                      IF r.err
                      THEN failedRename \cup
                             {<<p, word>> : p \in {q \in DOMAIN prefixTree :
                                 /\ q # <<>>
                                 /\ IsStrictPrefix(q, word)
                                 /\ prefixTree[q].dbID # 0}}
                      ELSE failedRename
    /\ UNCHANGED <<sinceTick, tickPending>>
    /\ UNCHANGED shutdown
    /\ UNCHANGED <<rejects, failedInsert, storedBeside>>
    /\ UNCHANGED outside

(* case <-ticker.C of the loop of flushCompletedWordToDBRoutine, with the  *)
(* whole of processTimedOutWords.                                          *)
processTimedOutWords ==
    /\ ~sweeperExited
    /\ tickPending
    /\ tickPending' = FALSE
    /\ LET \* cutoffTime = now - timeout: the elapsed time that is too long
           cutoffTime == Timeout
           timedOutWords == findAllTimedOutWords(prefixTree, <<>>, cutoffTime)
       IN  \E order \in Orders(timedOutWords) :
           \E st \in processInOrder(
                       {[tree |-> prefixTree, db |-> sl_db,
                         log |-> {}, failed |-> {}]}, order) :
               /\ skipped' = skipped \cup
                      {w \in timedOutWords : /\ prefixTree[w].dbID = 0
                                             /\ isPrefixOfAnyWord(prefixTree, w)}
               /\ prefixTree' = st.tree
               /\ searches' = st.db.searches
               /\ nextID' = st.db.nextID
               /\ everStored' = everStored \cup st.log
               /\ storedSince' = storedSince \cup st.log
               /\ failedInsert' = failedInsert \cup st.failed
               /\ storedBeside' = IF st.failed # {} THEN storedBeside \cup st.log
                                  ELSE storedBeside
    /\ UNCHANGED <<sinceTick, lastErr>>
    /\ UNCHANGED shutdown
    /\ UNCHANGED <<ncalls, submitted, growing, shrinking, extended, resubmitted,
                   nempty, renamed, everTyped>>
    /\ UNCHANGED <<rejects, failedRename>>
    /\ UNCHANGED outside

(* One time unit passes; the ticker puts a tick into its channel every     *)
(* Period, and the tick is dropped when one is waiting there already.  The *)
(* ticker is stopped when flushCompletedWordToDBRoutine returns.           *)
Advance ==
    /\ prefixTree' = [p \in DOMAIN prefixTree |->
                         [prefixTree[p] EXCEPT !.lastSeen = Later(@)]]
    /\ sinceTick' = (sinceTick + 1) % Period
    /\ tickPending' = (tickPending \/ (sinceTick' = 0 /\ ~sweeperExited))
    /\ submitted' = [w \in Typed |-> [submitted[w] EXCEPT !.since = Later(@)]]
    /\ UNCHANGED <<searches, nextID, lastErr>>
    /\ UNCHANGED shutdown
    /\ UNCHANGED <<ncalls, growing, shrinking, extended, resubmitted,
                   everStored, storedSince, nempty, renamed, skipped, everTyped>>
    /\ UNCHANGED faults
    /\ UNCHANGED outside

Next ==
    \/ \E raw \in RawInputs : LogSearch(raw)
    \/ processTimedOutWords
    \/ Advance

Spec == Init /\ [][Next]_vars

----------------------------------------------------------------------------
(* The engine with its ticker running and its sweeper scheduled *)

NextFair ==
    \/ \E raw \in Words : LogSearch(raw)
    \/ processTimedOutWords
    \/ Advance

(* Time passes, so the ticker goes on putting ticks into its channel every *)
(* Period, and the goroutine of flushCompletedWordToDBRoutine, which does  *)
(* nothing but wait in its select, takes a tick that waits there.          *)
SpecFair ==
    /\ Init
    /\ [][NextFair]_vars
    /\ WF_vars(Advance)
    /\ WF_vars(processTimedOutWords)

----------------------------------------------------------------------------
(* An engine constructed on the store another engine has left *)

(* Mutant: the node of the word is built and left as it is. *)
buildTrieFromWord_Unmarked(tree, word) == BuildPath(tree, word)

(* buildTrieFromWord: the path of the word is built, its node is marked a  *)
(* completed word and lastSeen = time.Now().                               *)
buildTrieFromWord(tree, word) ==
    [BuildPath(tree, word) EXCEPT ![word].isEndOfWord = TRUE,
                                  ![word].lastSeen = 0]

RECURSIVE loadWords(_, _)
loadWords(tree, words) ==
    IF words = {} THEN tree
    ELSE LET word == CHOOSE w \in words : TRUE
         IN  loadWords(buildTrieFromWord(tree, word), words \ {word})

(* Mutant: the node of a loaded word takes the id of its record. *)
loadExistingWords_Relink(tree, db) ==
    LET loaded == loadWords(tree, GetAllSearchedWords(db))
    IN  [p \in DOMAIN loaded |->
            IF p \in GetAllSearchedWords(db)
            THEN [loaded[p] EXCEPT !.dbID =
                     CHOOSE id \in DOMAIN db.searches : db.searches[id].Word = p]
            ELSE loaded[p]]

(* loadExistingWords: every word the gateway lists is built into the trie  *)
loadExistingWords(tree, db) == loadWords(tree, GetAllSearchedWords(db))

(* NewSearchLoggerWithDB(timeout, db) with the store as it is: a new trie  *)
(* with the stored words loaded, a new ticker and a new stopChan.  What    *)
(* has happened is counted from here on.  On an empty store the new engine *)
(* is in the state of NewSearchLogger, which is where the runs start.      *)
NewSearchLoggerWithDB ==
    /\ restarts < MaxRestarts
    /\ DOMAIN searches # {}
    /\ restarts' = restarts + 1
    /\ reloaded' = GetAllSearchedWords(sl_db)
    /\ prefixTree' = loadExistingWords((<<>> :> TrieNode), sl_db)
    /\ sinceTick' = 0
    /\ tickPending' = FALSE
    /\ lastErr' = FALSE
    /\ stopChan' = FALSE
    /\ sweeperExited' = FALSE
    /\ submitted' = <<>>
    /\ growing' = TRUE
    /\ shrinking' = TRUE
    /\ extended' = {}
    /\ resubmitted' = {}
    /\ everStored' = {}
    /\ storedSince' = {}
    /\ renamed' = {}
    /\ skipped' = {}
    /\ UNCHANGED <<searches, nextID, ncalls, nempty, everTyped>>
    /\ UNCHANGED <<faults, direct, version2, goroutines>>

NextRestart ==
    \/ \E raw \in Words : LogSearch(raw)
    \/ processTimedOutWords
    \/ Advance
    \/ NewSearchLoggerWithDB

SpecRestart == Init /\ [][NextRestart]_vars

----------------------------------------------------------------------------
(* The engine on a gateway that can refuse writes *)

(* The words whose writes are refused in the runs examined: a word that    *)
(* extends a and has a sibling.                                            *)
Refusable == {<<"a", "a">>}

(* The gateway starts to refuse the writes of a word *)
GatewayFails ==
    /\ rejects = {}
    /\ \E w \in Refusable : rejects' = {w}
    /\ UNCHANGED <<engine, shutdown, observed, failedRename, failedInsert, storedBeside>>
    /\ UNCHANGED outside

(* The gateway works again *)
GatewayRecovers ==
    /\ rejects # {}
    /\ rejects' = {}
    /\ UNCHANGED <<engine, shutdown, observed, failedRename, failedInsert, storedBeside>>
    /\ UNCHANGED outside

NextFaulty ==
    \/ \E raw \in RawInputs : LogSearch(raw)
    \/ processTimedOutWords
    \/ Advance
    \/ GatewayFails
    \/ GatewayRecovers

SpecFaulty == Init /\ [][NextFaulty]_vars

----------------------------------------------------------------------------
(* Shutdown *)

(* Close: stopChan is closed and the gateway is closed, which for          *)
(* MockPostgresDB does nothing.                                            *)
Close ==
    /\ ~stopChan
    /\ stopChan' = TRUE
    /\ UNCHANGED <<engine, sweeperExited, observed, faults, outside>>

(* case <-sl.stopChan of the loop of flushCompletedWordToDBRoutine.  When  *)
(* a tick is waiting as well, select takes either case.                    *)
SweeperExit ==
    /\ ~sweeperExited
    /\ stopChan
    /\ sweeperExited' = TRUE
    /\ UNCHANGED <<engine, stopChan, observed, faults, outside>>

NextClose ==
    \/ \E raw \in RawInputs : LogSearch(raw)
    \/ processTimedOutWords
    \/ Advance
    \/ Close
    \/ SweeperExit

SpecClose == Init /\ [][NextClose]_vars

----------------------------------------------------------------------------
(* MockPostgresDB called directly *)

(* The ids given to Update: those of the records, and one that is missing  *)
UpdateIDs == 1..(MaxSubmits + 1)

(* A call of InsertOrReplace(word, now, now) *)
CallInsertOrReplace(word) ==
    /\ dbCalls < MaxSubmits
    /\ dbCalls' = dbCalls + 1
    /\ \E r \in InsertOrReplace(sl_db, word) :
          /\ searches' = r.db.searches
          /\ nextID' = r.db.nextID
          /\ dbResult' = [op |-> "InsertOrReplace", word |-> word,
                          id |-> r.id, err |-> FALSE]
    /\ UNCHANGED <<prefixTree, sinceTick, tickPending, lastErr>>
    /\ UNCHANGED <<shutdown, observed, faults, version2, goroutines, restart>>

(* A call of Update(id, newWord, now) *)
CallUpdate(id, newWord) ==
    /\ dbCalls < MaxSubmits
    /\ dbCalls' = dbCalls + 1
    /\ LET r == Update(sl_db, id, newWord)
       IN  /\ searches' = r.db.searches
           /\ nextID' = r.db.nextID
           /\ dbResult' = [op |-> "Update", word |-> newWord,
                           id |-> id, err |-> r.err]
    /\ UNCHANGED <<prefixTree, sinceTick, tickPending, lastErr>>
    /\ UNCHANGED <<shutdown, observed, faults, version2, goroutines, restart>>

NextGateway ==
    \/ \E word \in Words : CallInsertOrReplace(word)
    \/ \E id \in UpdateIDs, newWord \in Words : CallUpdate(id, newWord)

SpecGateway == Init /\ [][NextGateway]_vars

----------------------------------------------------------------------------
(* Version 2: MockPostgresDBV2 *)

(* fmt.Sprintf("%d", id): the key of a record in the map *)
RecordKey(id) == ToString(id)

UserSearchRecord(id, userIdentifier, word) ==
    [ID |-> id, UserIdentifier |-> userIdentifier, SearchWord |-> word,
     SearchCount |-> 1]

(* Mutant: the records of every user are searched for the word. *)
KeysOf_AnyUser(db2, userIdentifier, word) ==
    {k \in DOMAIN db2.userSearches : db2.userSearches[k].SearchWord = word}

(* The keys of the records of the user with the word *)
KeysOf(db2, userIdentifier, word) ==
    {k \in DOMAIN db2.userSearches :
        /\ db2.userSearches[k].UserIdentifier = userIdentifier
        /\ db2.userSearches[k].SearchWord = word}

(* The map without a key: delete(db.userSearches, key) *)
Delete(m, key) == [k \in DOMAIN m \ {key} |-> m[k]]

(* The map with a key set: db.userSearches[key] = record *)
Put(m, key, record) ==
    [k \in DOMAIN m \cup {key} |-> IF k = key THEN record ELSE m[k]]

(* Mutant: a record is created whether the user has the word or not.      *)
InsertOrUpdateUserSearch_AlwaysInsert(db2, userIdentifier, word) ==
    {[db2 EXCEPT
        !.userSearches =
            Put(@, RecordKey(db2.nextID),
                UserSearchRecord(db2.nextID, userIdentifier, word)),
        !.nextID = @ + 1]}

(* InsertOrUpdateUserSearch: the outcomes, one for each record the loop    *)
(* over the map can find first.                                            *)
InsertOrUpdateUserSearch(db2, userIdentifier, word) ==
    LET hits == KeysOf(db2, userIdentifier, word)
    IN  IF hits # {}
        THEN {[db2 EXCEPT
                 !.userSearches =
                     Put(@, RecordKey(db2.userSearches[k].ID),
                         [db2.userSearches[k] EXCEPT !.SearchCount = @ + 1])] :
                 k \in hits}
        ELSE {[db2 EXCEPT
                 !.userSearches =
                     Put(@, RecordKey(db2.nextID),
                         UserSearchRecord(db2.nextID, userIdentifier, word)),
                 !.nextID = @ + 1]}

(* GetUserSearches, as the set of the words and, for the length of the     *)
(* list, the records.                                                      *)
GetUserSearches(db2, userIdentifier) ==
    {db2.userSearches[k].SearchWord :
        k \in {j \in DOMAIN db2.userSearches :
                  db2.userSearches[j].UserIdentifier = userIdentifier}}

RecordsOfUser(db2, userIdentifier) ==
    {k \in DOMAIN db2.userSearches :
        db2.userSearches[k].UserIdentifier = userIdentifier}

(* UpdateUserSearchByWord: the outcomes [err, db].                          *)
UpdateUserSearchByWord(db2, userIdentifier, oldWord, newWord) ==
    LET olds == KeysOf(db2, userIdentifier, oldWord)
        news == KeysOf(db2, userIdentifier, newWord)
    IN  IF olds = {}
        THEN {[err |-> TRUE, db |-> db2]}
        ELSE UNION {
               LET oldRecord == db2.userSearches[oldKey]
                   removed == Delete(db2.userSearches, oldKey)
               IN  IF news # {}
                   THEN {[err |-> FALSE,
                          db |-> [db2 EXCEPT !.userSearches =
                                   Put(removed, existingKey,
                                       [ID |-> db2.userSearches[existingKey].ID,
                                        UserIdentifier |-> userIdentifier,
                                        SearchWord |-> newWord,
                                        SearchCount |->
                                            db2.userSearches[existingKey].SearchCount
                                              + oldRecord.SearchCount])]] :
                          existingKey \in news}
                   ELSE {[err |-> FALSE,
                          db |-> [db2 EXCEPT !.userSearches =
                                   Put(removed, oldKey,
                                       [ID |-> oldRecord.ID,
                                        UserIdentifier |-> userIdentifier,
                                        SearchWord |-> newWord,
                                        SearchCount |-> oldRecord.SearchCount + 1])]]} :
               oldKey \in olds}

----------------------------------------------------------------------------
(* Version 2: SearchLoggerV2 *)

(* Mutant: a word that is a prefix of a longer stored word is stored.      *)
storeOrExtendUserSearch_NoIgnore(db2, userIdentifier, word) ==
    LET existingWords == GetUserSearches(db2, userIdentifier)
        shorter == {e \in existingWords : IsStrictPrefix(e, word)}
    IN  IF shorter # {}
        THEN UNION {UpdateUserSearchByWord(db2, userIdentifier, e, word) :
                       e \in shorter}
        ELSE {[err |-> FALSE, db |-> d] :
                 d \in InsertOrUpdateUserSearch(db2, userIdentifier, word)}

(* Mutant: a word that extends a stored word is stored beside it.          *)
storeOrExtendUserSearch_NoExtend(db2, userIdentifier, word) ==
    LET existingWords == GetUserSearches(db2, userIdentifier)
    IN  IF \E e \in existingWords : IsStrictPrefix(word, e)
        THEN {[err |-> FALSE, db |-> db2]}
        ELSE {[err |-> FALSE, db |-> d] :
                 d \in InsertOrUpdateUserSearch(db2, userIdentifier, word)}

(* storeOrExtendUserSearch after its read of existingWords: the outcomes  *)
(* [err, db] of the loops and of the one write they lead to, on the store  *)
(* as it is at the write; the first loop takes the first shorter prefix    *)
(* the list of existing words has.                                         *)
storeOrExtendFrom(existingWords, db2, userIdentifier, word) ==
    LET shorter == {e \in existingWords : IsStrictPrefix(e, word)}
    IN  IF shorter # {}
        THEN UNION {UpdateUserSearchByWord(db2, userIdentifier, e, word) :
                       e \in shorter}
        ELSE IF \E e \in existingWords : IsStrictPrefix(word, e)
        THEN {[err |-> FALSE, db |-> db2]}
        ELSE {[err |-> FALSE, db |-> d] :
                 d \in InsertOrUpdateUserSearch(db2, userIdentifier, word)}

(* storeOrExtendUserSearch with nothing between its read and its write *)
storeOrExtendUserSearch(db2, userIdentifier, word) ==
    storeOrExtendFrom(GetUserSearches(db2, userIdentifier),
                      db2, userIdentifier, word)

sl_dbV2 == [userSearches |-> userSearches, nextID |-> nextIDV2]

LogSearchV2(userIdentifier, raw) ==
    /\ ncallsV2 < MaxSubmits
    /\ ncallsV2' = ncallsV2 + 1
    /\ callerV2' = userIdentifier
    /\ IF raw = <<>> \/ userIdentifier = ""
       THEN /\ lastErrV2' = TRUE
            /\ UNCHANGED <<userSearches, nextIDV2, typedV2, growingV2>>
       ELSE LET word == Normalize(raw) IN
            /\ \E r \in storeOrExtendUserSearch(sl_dbV2, userIdentifier, word) :
                  /\ userSearches' = r.db.userSearches
                  /\ nextIDV2' = r.db.nextID
                  /\ lastErrV2' = r.err
            /\ typedV2' = [typedV2 EXCEPT ![userIdentifier] = @ \cup {word}]
            /\ growingV2' =
                  [growingV2 EXCEPT ![userIdentifier] =
                      \/ typedV2[userIdentifier] = {}
                      \/ /\ @
                         /\ \A v \in typedV2[userIdentifier] : IsStrictPrefix(v, word)]
    /\ UNCHANGED <<pcV2, argV2, existingV2>>
    /\ UNCHANGED <<engine, shutdown, observed, faults, direct, goroutines, restart>>

NextV2 ==
    \E userIdentifier \in Users \cup {""}, raw \in RawInputs :
        LogSearchV2(userIdentifier, raw)

SpecV2 == Init /\ [][NextV2]_vars

----------------------------------------------------------------------------
(* Version 2: calls of LogSearchV2 in several goroutines *)

(* The call of LogSearchV2(userIdentifier, word) of caller c up to the     *)
(* return of sl.db.GetUserSearches in storeOrExtendUserSearch: the list is *)
(* read under the lock of the store, which is released at the return.      *)
ReadUserSearches(c, userIdentifier, raw) ==
    /\ pcV2[c] = "idle"
    /\ ncallsV2 < MaxSubmits
    /\ raw # <<>> /\ userIdentifier # ""
    /\ ncallsV2' = ncallsV2 + 1
    /\ LET word == Normalize(raw) IN
       /\ argV2' = [argV2 EXCEPT ![c] = [user |-> userIdentifier, word |-> word]]
       /\ typedV2' = [typedV2 EXCEPT ![userIdentifier] = @ \cup {word}]
       /\ growingV2' =
             [growingV2 EXCEPT ![userIdentifier] =
                 \/ typedV2[userIdentifier] = {}
                 \/ /\ @
                    /\ \A v \in typedV2[userIdentifier] : IsStrictPrefix(v, word)]
    /\ existingV2' = [existingV2 EXCEPT ![c] = GetUserSearches(sl_dbV2, userIdentifier)]
    /\ pcV2' = [pcV2 EXCEPT ![c] = "read"]
    /\ UNCHANGED <<userSearches, nextIDV2, lastErrV2, callerV2>>
    /\ UNCHANGED <<engine, shutdown, observed, faults, direct, goroutines, restart>>

(* The rest of the call: the loops over the list that was read, the one    *)
(* call of UpdateUserSearchByWord or InsertOrUpdateUserSearch they lead to *)
(* (each under the lock of the store), and the return of LogSearchV2.      *)
WriteUserSearch(c) ==
    /\ pcV2[c] = "read"
    /\ \E r \in storeOrExtendFrom(existingV2[c], sl_dbV2,
                                  argV2[c].user, argV2[c].word) :
          /\ userSearches' = r.db.userSearches
          /\ nextIDV2' = r.db.nextID
          /\ lastErrV2' = r.err
    /\ callerV2' = argV2[c].user
    /\ pcV2' = [pcV2 EXCEPT ![c] = "idle"]
    /\ argV2' = [argV2 EXCEPT ![c] = NoCallV2]
    /\ existingV2' = [existingV2 EXCEPT ![c] = {}]
    /\ UNCHANGED <<ncallsV2, typedV2, growingV2>>
    /\ UNCHANGED <<engine, shutdown, observed, faults, direct, goroutines, restart>>

NextV2Goroutines ==
    \/ \E c \in Callers, userIdentifier \in Users, raw \in Words :
          ReadUserSearches(c, userIdentifier, raw)
    \/ \E c \in Callers : WriteUserSearch(c)

SpecV2Goroutines == Init /\ [][NextV2Goroutines]_vars

----------------------------------------------------------------------------
(* Version 1, statement by statement under sl.mutex *)

(* The clock is read once in a critical section, at its start, so a time   *)
(* unit that ends inside a critical section is taken to end at its end.    *)
(* The steps below leave the record of submitted words alone.              *)
Rest == <<shutdown, submitted, growing, shrinking, extended, resubmitted,
          everStored, storedSince, nempty, renamed, skipped, everTyped, faults,
          direct, version2, restart>>

(* Mutant: Lock does not wait. *)
CanLock_NoWait == TRUE

(* sl.mutex.Lock() returns *)
CanLock == mutexWriter = "none" /\ mutexReaders = {}

(* sl.mutex.RLock() returns *)
CanRLock == mutexWriter = "none"

Here == [tree |-> prefixTree, db |-> sl_db]

(* LogSearch up to the lock: the test for the empty string and the         *)
(* normalization.                                                          *)
LogSearchEnter(c, raw) ==
    /\ pc[c] = "idle"
    /\ ncalls < MaxConcurrent
    /\ ncalls' = ncalls + 1
    /\ IF IsEmptyWord(raw)
       THEN UNCHANGED <<pc, arg>>
       ELSE /\ pc' = [pc EXCEPT ![c] = "lock"]
            /\ arg' = [arg EXCEPT ![c] = Normalize(raw)]
    /\ UNCHANGED <<engine, Rest>>
    /\ UNCHANGED <<mutexWriter, mutexReaders, todo, readResult, snapshot>>

(* sl.mutex.Lock() and now := time.Now() *)
LogSearchLock(c) ==
    /\ pc[c] = "lock"
    /\ CanLock
    /\ mutexWriter' = c
    /\ snapshot' = Here
    /\ pc' = [pc EXCEPT ![c] = "build"]
    /\ UNCHANGED <<engine, Rest, ncalls>>
    /\ UNCHANGED <<mutexReaders, arg, todo, readResult>>

(* The loop that traverses and builds the trie *)
LogSearchBuild(c) ==
    /\ pc[c] = "build"
    /\ prefixTree' = BuildPath(prefixTree, arg[c])
    /\ pc' = [pc EXCEPT ![c] = "seen"]
    /\ UNCHANGED <<searches, nextID, sinceTick, tickPending, lastErr>>
    /\ UNCHANGED <<Rest, ncalls>>
    /\ UNCHANGED <<mutexWriter, mutexReaders, arg, todo, readResult, snapshot>>

(* node.lastSeen = now *)
LogSearchSeen(c) ==
    /\ pc[c] = "seen"
    /\ prefixTree' = [prefixTree EXCEPT ![arg[c]].lastSeen = 0]
    /\ pc' = [pc EXCEPT ![c] = "extend"]
    /\ UNCHANGED <<searches, nextID, sinceTick, tickPending, lastErr>>
    /\ UNCHANGED <<Rest, ncalls>>
    /\ UNCHANGED <<mutexWriter, mutexReaders, arg, todo, readResult, snapshot>>

(* handleWordExtension *)
LogSearchExtend(c) ==
    /\ pc[c] = "extend"
    /\ LET r == handleWordExtension(prefixTree, sl_db, arg[c])
       IN  /\ prefixTree' = r.tree
           /\ searches' = r.db.searches
           /\ nextID' = r.db.nextID
           /\ lastErr' = r.err
    /\ pc' = [pc EXCEPT ![c] = "unlock"]
    /\ UNCHANGED <<sinceTick, tickPending>>
    /\ UNCHANGED <<Rest, ncalls>>
    /\ UNCHANGED <<mutexWriter, mutexReaders, arg, todo, readResult, snapshot>>

(* The deferred sl.mutex.Unlock() of LogSearch *)
LogSearchUnlock(c) ==
    /\ pc[c] = "unlock"
    /\ mutexWriter' = "none"
    /\ snapshot' = "none"
    /\ pc' = [pc EXCEPT ![c] = "idle"]
    /\ UNCHANGED <<engine, Rest, ncalls>>
    /\ UNCHANGED <<mutexReaders, arg, todo, readResult>>

(* case <-ticker.C *)
SweeperTick ==
    /\ pc["sweeper"] = "idle"
    /\ tickPending
    /\ tickPending' = FALSE
    /\ pc' = [pc EXCEPT !["sweeper"] = "lock"]
    /\ UNCHANGED <<prefixTree, searches, nextID, sinceTick, lastErr>>
    /\ UNCHANGED <<Rest, ncalls>>
    /\ UNCHANGED <<mutexWriter, mutexReaders, arg, todo, readResult, snapshot>>

(* processTimedOutWords up to its loop: the lock, the cutoff, the search   *)
(* for the timed-out words, and the order the loop will take.              *)
SweeperLock ==
    /\ pc["sweeper"] = "lock"
    /\ CanLock
    /\ mutexWriter' = "sweeper"
    /\ snapshot' = Here
    /\ \E order \in Orders(findAllTimedOutWords(prefixTree, <<>>, Timeout)) :
          /\ todo' = order
          /\ pc' = [pc EXCEPT !["sweeper"] =
                        IF order = <<>> THEN "unlock" ELSE "loop"]
    /\ UNCHANGED <<engine, Rest, ncalls>>
    /\ UNCHANGED <<mutexReaders, arg, readResult>>

(* One turn of the loop of processTimedOutWords *)
SweeperWord ==
    /\ pc["sweeper"] = "loop"
    /\ \E st \in processWord([tree |-> prefixTree, db |-> sl_db,
                               log |-> {}, failed |-> {}], Head(todo)) :
          /\ prefixTree' = st.tree
          /\ searches' = st.db.searches
          /\ nextID' = st.db.nextID
    /\ todo' = Tail(todo)
    /\ pc' = [pc EXCEPT !["sweeper"] =
                  IF Tail(todo) = <<>> THEN "unlock" ELSE "loop"]
    /\ UNCHANGED <<sinceTick, tickPending, lastErr>>
    /\ UNCHANGED <<Rest, ncalls>>
    /\ UNCHANGED <<mutexWriter, mutexReaders, arg, readResult, snapshot>>

(* The deferred sl.mutex.Unlock() of processTimedOutWords *)
SweeperUnlock ==
    /\ pc["sweeper"] = "unlock"
    /\ mutexWriter' = "none"
    /\ snapshot' = "none"
    /\ pc' = [pc EXCEPT !["sweeper"] = "idle"]
    /\ UNCHANGED <<engine, Rest, ncalls>>
    /\ UNCHANGED <<mutexReaders, arg, todo, readResult>>

(* sl.mutex.RLock() of GetStoredSearches *)
GetStoredSearchesLock ==
    /\ pc["reader"] = "idle"
    /\ CanRLock
    /\ mutexReaders' = mutexReaders \cup {"reader"}
    /\ pc' = [pc EXCEPT !["reader"] = "read"]
    /\ UNCHANGED <<engine, Rest, ncalls>>
    /\ UNCHANGED <<mutexWriter, arg, todo, readResult, snapshot>>

(* sl.db.GetAllSearchedWords() *)
GetStoredSearchesRead ==
    /\ pc["reader"] = "read"
    /\ readResult' = GetAllSearchedWords(sl_db)
    /\ pc' = [pc EXCEPT !["reader"] = "unlock"]
    /\ UNCHANGED <<engine, Rest, ncalls>>
    /\ UNCHANGED <<mutexWriter, mutexReaders, arg, todo, snapshot>>

(* The deferred sl.mutex.RUnlock() of GetStoredSearches *)
GetStoredSearchesUnlock ==
    /\ pc["reader"] = "unlock"
    /\ mutexReaders' = mutexReaders \ {"reader"}
    /\ pc' = [pc EXCEPT !["reader"] = "idle"]
    /\ UNCHANGED <<engine, Rest, ncalls>>
    /\ UNCHANGED <<mutexWriter, arg, todo, readResult, snapshot>>

(* One time unit passes *)
AdvanceUnlocked ==
    /\ mutexWriter = "none"
    /\ Advance

NextGoroutines ==
    \/ \E c \in Callers, raw \in RawInputs : LogSearchEnter(c, raw)
    \/ \E c \in Callers : LogSearchLock(c)
    \/ \E c \in Callers : LogSearchBuild(c)
    \/ \E c \in Callers : LogSearchSeen(c)
    \/ \E c \in Callers : LogSearchExtend(c)
    \/ \E c \in Callers : LogSearchUnlock(c)
    \/ SweeperTick
    \/ SweeperLock
    \/ SweeperWord
    \/ SweeperUnlock
    \/ GetStoredSearchesLock
    \/ GetStoredSearchesRead
    \/ GetStoredSearchesUnlock
    \/ AdvanceUnlocked

SpecGoroutines == Init /\ [][NextGoroutines]_vars

----------------------------------------------------------------------------
(* Views of the state *)

StoredWords == GetAllSearchedWords([searches |-> searches, nextID |-> nextID])

RecordsOf(word) == {id \in DOMAIN searches : searches[id].Word = word}

(* The step is a sweep: only processTimedOutWords takes the tick of the     *)
(* ticker of the engine.                                                   *)
SweepStep == tickPending /\ ~tickPending' /\ restarts' = restarts

(* The step is a call of LogSearch with a string that normalizes to w. *)
CallOf(w) ==
    /\ ncalls' = ncalls + 1
    /\ w \in DOMAIN submitted'
    /\ submitted'[w].n = (IF w \in Typed THEN submitted[w].n ELSE 0) + 1

(* The sweep of this step stores word w. *)
SweepStores(w) ==
    /\ SweepStep
    /\ w \in DOMAIN prefixTree
    /\ prefixTree[w].dbID = 0
    /\ prefixTree'[w].dbID # 0

(* The word was last submitted more than the timeout ago *)
Quiet(w) == submitted[w].since > Timeout

(* No longer word under w was submitted *)
NeverExtended(w) == \A v \in Typed : ~IsStrictPrefix(w, v)

(* The longest word submitted *)
Longest == CHOOSE w \in Typed : \A v \in Typed : Len(v) <= Len(w)

(* After the step the store holds w in exactly one record, and no other    *)
ExactlyOnce(w) ==
    /\ {searches'[id].Word : id \in DOMAIN searches'} = {w}
    /\ Cardinality(DOMAIN searches') = 1

----------------------------------------------------------------------------
(* Convergence *)

(* C1: when strictly growing prefixes of a word W were submitted in        *)
(* increasing-length order with gaps shorter than the timeout and nothing  *)
(* else, a sweep that runs after the timeout has elapsed leaves exactly W  *)
(* in the store, in exactly one record.                                    *)
C1_Convergence ==
    [][(SweepStep /\ Typed # {} /\ growing /\ Quiet(Longest))
         => ExactlyOnce(Longest)]_vars

(* Three growing prefixes were submitted and a sweep has stored the last   *)
C1_Witness ==
    /\ growing
    /\ Typed \subseteq Words
    /\ Cardinality(Typed) = 3
    /\ Quiet(Longest)
    /\ Longest \in storedSince
    /\ StoredWords = {Longest}

----------------------------------------------------------------------------
(* Extension *)

(* The record of p is held by the engine: p's node has the id of a record  *)
(* whose word is p.                                                        *)
HeldRecord(p) ==
    /\ p \in DOMAIN prefixTree
    /\ prefixTree[p].dbID # 0
    /\ prefixTree[p].dbID \in DOMAIN searches
    /\ searches[prefixTree[p].dbID].Word = p

(* C2: whenever LogSearch(word) is called and a proper prefix of word is   *)
(* held as a record by the engine, that record is renamed to word, no      *)
(* record is created and the shorter word is no longer stored; this holds  *)
(* for every extension in a succession of extensions.                      *)
C2_ExtensionRenames ==
    [][\A word \in DOMAIN submitted' :
        CallOf(word) =>
            \A p \in DOMAIN prefixTree \ {<<>>} :
                (IsStrictPrefix(p, word) /\ HeldRecord(p)) =>
                    /\ searches'[prefixTree[p].dbID].Word = word
                    /\ DOMAIN searches' = DOMAIN searches
                    /\ \A id \in DOMAIN searches' : searches'[id].Word # p]_vars

(* C25: after a call LogSearch(word) that returns no error, every proper   *)
(* prefix of word whose node was a completed word and held a dbID has had  *)
(* its record renamed to word and its dbID cleared, with isEndOfWord left  *)
(* TRUE, and the node of word holds a dbID; and at most one node on the    *)
(* path from the root to word holds a dbID.                                *)
C25_RelinkPostcondition ==
    [][\A word \in DOMAIN submitted' :
        (CallOf(word) /\ ~lastErr') =>
            /\ \A p \in DOMAIN prefixTree :
                  (/\ IsStrictPrefix(p, word)
                   /\ prefixTree[p].isEndOfWord
                   /\ prefixTree[p].dbID # 0) =>
                      /\ prefixTree[p].dbID \in DOMAIN searches'
                      /\ searches'[prefixTree[p].dbID].Word = word
                      /\ prefixTree'[p].dbID = 0
                      /\ prefixTree'[p].isEndOfWord
                      /\ prefixTree'[word].dbID # 0
            /\ \A p, q \in DOMAIN prefixTree' :
                  (/\ IsPrefix(q, word)
                   /\ IsStrictPrefix(p, q)
                   /\ prefixTree'[p].dbID # 0) => prefixTree'[q].dbID = 0]_vars

(* C3: at most one node on any root-to-leaf path holds a dbID (stated for  *)
(* the nodes below the root).                                              *)
C3_ReferenceUniquePerPath ==
    \A p, q \in DOMAIN prefixTree \ {<<>>} :
        (IsStrictPrefix(p, q) /\ prefixTree[p].dbID # 0) => prefixTree[q].dbID = 0

(* C4: no stored word is a strict prefix of another stored word (stated    *)
(* for the stored words that are not empty).                               *)
C4_OnlyMostCompleteStored ==
    \A u, v \in StoredWords \ {<<>>} : ~IsStrictPrefix(u, v)

----------------------------------------------------------------------------
(* Idempotence *)

(* C5: the store never holds two records with the same word.               *)
C5_NoDuplicateRecords ==
    \A i, j \in DOMAIN searches :
        searches[i].Word = searches[j].Word => i = j

(* A word was stored, submitted again, and swept again after its second    *)
(* timeout.                                                                *)
C5_Witness ==
    \E w \in Typed :
        /\ submitted[w].n >= 2
        /\ w \in everStored \ storedSince
        /\ Quiet(w)
        /\ ~tickPending
        /\ Cardinality(RecordsOf(w)) = 1

----------------------------------------------------------------------------
(* Order independence *)

(* C6: when the prefixes of a word W were submitted longest first and      *)
(* nothing else, a sweep that runs after the timeout has elapsed leaves    *)
(* exactly W in the store, in exactly one record, as in increasing order.  *)
C6_OrderIndependence ==
    [][(SweepStep /\ Typed # {} /\ shrinking /\ \A w \in Typed : Quiet(w))
         => ExactlyOnce(Longest)]_vars

(* Three prefixes were submitted longest first and the longest is stored   *)
C6_Witness ==
    /\ shrinking
    /\ Typed \subseteq Words
    /\ Cardinality(Typed) = 3
    /\ \A w \in Typed : Quiet(w)
    /\ ~tickPending
    /\ everStored = {Longest}
    /\ StoredWords = {Longest}

----------------------------------------------------------------------------
(* Prefix suppression *)

(* C7 as stated: if A is a strict prefix of B and B is submitted within    *)
(* the timeout after A's last submission, no sweep ever stores A.          *)
C7_NeverStored ==
    \A A \in extended \ {<<>>} : A \notin everStored

(* C7 amended: if A is a strict prefix of B and B is submitted within the  *)
(* timeout after A's last submission, no sweep that runs after that        *)
(* submission of A stores A.                                               *)
C7_NotStoredAfterLastSubmission ==
    \A A \in extended : A \notin storedSince

(* A was extended in time, both have timed out and a sweep has run: the    *)
(* longer word is stored and A is not.                                     *)
C7_Witness ==
    \E A \in extended \ {<<>>} :
        /\ \A w \in Typed : Quiet(w)
        /\ A \notin everStored
        /\ \E B \in storedSince : IsStrictPrefix(A, B)

----------------------------------------------------------------------------
(* Timeout *)

(* C8: a sweep never stores a word before lastSeen + timeout of that word  *)
(* (before Timeout has passed since its lastSeen), and a call with exactly *)
(* that word sets its lastSeen to the time of the call.                    *)
C8_TimeoutLowerBound ==
    [][\A w \in DOMAIN prefixTree' :
          /\ SweepStores(w) => prefixTree[w].lastSeen >= Timeout
          /\ CallOf(w) => prefixTree'[w].lastSeen = 0]_vars

(* A word was submitted again at a later time, and stored after that       *)
C8_Witness ==
    \E w \in resubmitted : w \in storedSince

(* C9 as stated: a word submitted once and never extended is stored by a   *)
(* sweep that runs at or after lastSeen + timeout.                         *)
C9_StoredAtOrAfterTimeout ==
    [][SweepStep =>
        \A w \in Typed :
            (submitted[w].n = 1 /\ NeverExtended(w) /\ submitted[w].since >= Timeout)
                => \E id \in DOMAIN searches' : searches'[id].Word = w]_vars

(* C9 amended: a word submitted once and never extended is stored by a     *)
(* sweep that runs strictly after lastSeen + timeout.                      *)
C9_StoredAfterTimeout ==
    [][SweepStep =>
        \A w \in Typed :
            (submitted[w].n = 1 /\ NeverExtended(w) /\ submitted[w].since > Timeout)
                => \E id \in DOMAIN searches' : searches'[id].Word = w]_vars

(* A word submitted once was stored by the sweep of the first tick after   *)
(* its timeout; the ticks are Period apart.                                *)
C9_Witness ==
    \E w \in Typed \ {<<>>} :
        /\ submitted[w].n = 1
        /\ NeverExtended(w)
        /\ submitted[w].since = Timeout + Period
        /\ ~tickPending
        /\ w \in storedSince
        /\ RecordsOf(w) # {}

----------------------------------------------------------------------------
(* Independent words *)

Independent(u, v) == ~IsPrefix(u, v) /\ ~IsPrefix(v, u)

(* C10: two submitted words of which neither is a prefix of the other, and *)
(* under which no longer word was submitted, are both stored, in separate  *)
(* records, by a sweep that runs after both have been quiet for the        *)
(* timeout, whatever trie nodes they share.                                *)
C10_IndependentWordsBothStored ==
    [][SweepStep =>
        \A u, v \in Typed :
            (/\ Independent(u, v)
             /\ NeverExtended(u) /\ NeverExtended(v)
             /\ Quiet(u) /\ Quiet(v))
            => /\ \E id \in DOMAIN searches' : searches'[id].Word = u
               /\ \E id \in DOMAIN searches' : searches'[id].Word = v
               /\ prefixTree'[u].dbID # 0
               /\ prefixTree'[v].dbID # 0
               /\ prefixTree'[u].dbID # prefixTree'[v].dbID]_vars

(* Two words that share the node of their first letter are both stored     *)
C10_Witness ==
    \E u, v \in Typed :
        /\ Independent(u, v)
        /\ Len(u) > 1 /\ Len(v) > 1 /\ u[1] = v[1]
        /\ {u, v} \subseteq StoredWords
        /\ {u, v} \subseteq storedSince
        /\ prefixTree[u].dbID # prefixTree[v].dbID

----------------------------------------------------------------------------
(* Stepping stones *)

(* The node of the word holds no dbID and has a searched descendant: a     *)
(* sweep that finds the word timed out leaves it alone.                    *)
SteppingStone(tree, w) ==
    /\ w \in DOMAIN tree
    /\ tree[w].dbID = 0
    /\ isPrefixOfAnyWord(tree, w)

(* C22 as stated: a timed-out word that a sweep has skipped because a      *)
(* longer typed word exists beneath it is later renamed by an extension or *)
(* stored by a sweep; either way its node comes to hold a dbID or the      *)
(* store comes to hold the word.                                           *)
C22_SkippedWordResolved ==
    \A A \in Words :
        (A \in skipped) ~>
            \/ A \in DOMAIN prefixTree /\ prefixTree[A].dbID # 0
            \/ A \in StoredWords

(* C22 amended: a timed-out word that a sweep has skipped because a longer *)
(* typed word exists beneath it holds no dbID and is not in the store, and *)
(* a word in that condition stays in it: the lastSeen of the longer word   *)
(* is never cleared, so every later sweep skips the word too, and with no  *)
(* dbID it is never renamed.  What later sweeps leave in the store, once   *)
(* the longer words have gone quiet, is a longer word beneath it: again    *)
(* and again every such word has a longer word beneath it in the store.    *)
C22_SkippedWordStaysUnstored ==
    /\ [][\A A \in Words :
            SteppingStone(prefixTree, A) => SteppingStone(prefixTree', A)]_vars
    /\ [](\A A \in skipped :
            SteppingStone(prefixTree, A) /\ A \notin StoredWords)
    /\ []<>(\A A \in Words :
              SteppingStone(prefixTree, A) =>
                  \E B \in StoredWords : IsStrictPrefix(A, B))

(* A word was skipped by a sweep and never stored; every word has gone     *)
(* quiet and a longer word beneath it has been stored.                     *)
C22_Witness ==
    \E A \in skipped \ {<<>>} :
        /\ \A w \in Typed : Quiet(w)
        /\ A \notin everStored
        /\ prefixTree[A].dbID = 0
        /\ \E B \in storedSince : IsStrictPrefix(A, B) /\ B \in StoredWords

----------------------------------------------------------------------------
(* Construction on a store that holds words *)

(* The step is a construction of an engine on the store *)
Constructed == restarts' = restarts + 1

(* C24: when an engine is constructed on the store, the new trie has, for  *)
(* every word the gateway holds, the chain of nodes of the word, the node  *)
(* of the word with isEndOfWord = TRUE, lastSeen = the time of the         *)
(* construction and no dbID; and the store is what it was: loading writes  *)
(* nothing to the gateway.                                                 *)
C24_LoadAtStartup ==
    [][Constructed =>
        /\ \A w \in StoredWords :
              /\ \A i \in 0..Len(w) : SubSeq(w, 1, i) \in DOMAIN prefixTree'
              /\ prefixTree'[w].isEndOfWord
              /\ prefixTree'[w].lastSeen = 0
              /\ prefixTree'[w].dbID = 0
        /\ searches' = searches
        /\ nextID' = nextID]_vars

(* The records with word A are what they were *)
RecordKept(A) ==
    \A id \in RecordsOf(A) :
        id \in DOMAIN searches' /\ searches'[id] = searches[id]

(* The sweep of this step finds B timed out, with no dbID and no searched  *)
(* descendant, and the store without B.                                    *)
SweepFinds(B) ==
    /\ SweepStep
    /\ B \in DOMAIN prefixTree
    /\ prefixTree[B].lastSeen > Timeout
    /\ prefixTree[B].dbID = 0
    /\ ~isPrefixOfAnyWord(prefixTree, B)
    /\ B \notin StoredWords

(* After the step B has a record under an id that was not in use *)
NewRecord(B) ==
    /\ prefixTree'[B].dbID \in DOMAIN searches' \ DOMAIN searches
    /\ searches'[prefixTree'[B].dbID].Word = B

(* C23 as stated: when an engine was constructed on a store that held A    *)
(* and a word B that A is a proper prefix of is submitted at any time      *)
(* after, the record of A is not renamed; and the sweep that stores B      *)
(* gives it a new record and leaves that of A.                             *)
C23_ReloadedNeverRenamed ==
    [][restarts > 0 =>
        \A A \in reloaded \cap StoredWords :
            \A B \in DOMAIN prefixTree' :
                IsStrictPrefix(A, B) =>
                    /\ CallOf(B) => RecordKept(A)
                    /\ SweepFinds(B) => (NewRecord(B) /\ RecordKept(A))]_vars

(* C23 amended: when an engine was constructed on a store that held A and  *)
(* a word B that A is a proper prefix of is submitted before a sweep of    *)
(* the new engine has stored A again, the node of A holds no dbID, the     *)
(* record of A is not renamed, and the sweep that stores B gives it a new  *)
(* record and leaves that of A.  A sweep that finds A timed out with no    *)
(* searched descendant stores A again and the node of A takes the id of    *)
(* the record of A; a word B submitted after that renames this record and  *)
(* no record is created.                                                   *)
C23_ReloadedRenamedAfterResweep ==
    [][restarts > 0 =>
        \A A \in reloaded \cap StoredWords :
            /\ SweepStores(A) => prefixTree'[A].dbID \in RecordsOf(A)
            /\ \A B \in DOMAIN prefixTree' :
                  IsStrictPrefix(A, B) =>
                      IF A \notin everStored
                      THEN /\ prefixTree[A].dbID = 0
                           /\ CallOf(B) => RecordKept(A) /\ prefixTree'[A].dbID = 0
                           /\ SweepFinds(B) => (NewRecord(B) /\ RecordKept(A))
                      ELSE CallOf(B) =>
                              /\ prefixTree[A].dbID \in RecordsOf(A)
                              /\ searches'[prefixTree[A].dbID].Word = B
                              /\ DOMAIN searches' = DOMAIN searches]_vars

(* The new engine was given a longer word before it had stored the loaded  *)
(* word again: the longer word has a record of its own beside the record   *)
(* of the loaded word, whose node holds no dbID.                           *)
C23_Witness ==
    /\ restarts > 0
    /\ \E A \in reloaded : \E B \in storedSince :
          /\ IsStrictPrefix(A, B)
          /\ {A, B} \subseteq StoredWords
          /\ A \notin everStored
          /\ prefixTree[A].dbID = 0
          /\ prefixTree[B].dbID # 0
          /\ Cardinality(DOMAIN searches) = 2

(* An engine has just been constructed on a store that holds two words,    *)
(* one of them of several letters.                                         *)
C24_Witness ==
    /\ restarts > 0
    /\ Typed = {}
    /\ sinceTick = 0
    /\ Cardinality(reloaded) >= 2
    /\ reloaded = StoredWords
    /\ \A w \in reloaded :
          /\ Len(w) > 1
          /\ prefixTree[w].lastSeen = 0
          /\ prefixTree[w].isEndOfWord
          /\ prefixTree[w].dbID = 0

----------------------------------------------------------------------------
(* The prefix test of the sweep *)

(* C26: isPrefixOfAnyWord(word) is true exactly when the node of word      *)
(* exists and a node strictly below it has its lastSeen set, however long  *)
(* ago; it is false when the node does not exist.  (The operator is a      *)
(* function of the trie: it has no state to change.)                       *)
C26_PrefixTest ==
    \A word \in SeqsUpTo(MaxLen) :
        isPrefixOfAnyWord(prefixTree, word) <=>
            /\ word \in DOMAIN prefixTree
            /\ \E q \in DOMAIN prefixTree :
                  /\ IsStrictPrefix(word, q)
                  /\ prefixTree[q].lastSeen # ZeroTime

(* A sweep has skipped a word whose children were never searched and whose *)
(* searched descendants all timed out; a word has its lastSeen set and     *)
(* nothing searched below it; and a string has no node.                    *)
C26_Witness ==
    /\ \E w \in skipped :
          /\ isPrefixOfAnyWord(prefixTree, w)
          /\ \A c \in Children(prefixTree, w) : prefixTree[c].lastSeen = ZeroTime
          /\ \A q \in DOMAIN prefixTree :
                IsStrictPrefix(w, q) => prefixTree[q].lastSeen \in {ZeroTime, LongAgo}
    /\ \E w \in DOMAIN prefixTree :
          prefixTree[w].lastSeen # ZeroTime /\ ~isPrefixOfAnyWord(prefixTree, w)
    /\ \E w \in SeqsUpTo(MaxLen) \ DOMAIN prefixTree :
          ~isPrefixOfAnyWord(prefixTree, w)

----------------------------------------------------------------------------
(* What a sweep leaves alone *)

(* The node of the word is timed out, holds no dbID and has no searched    *)
(* descendant.                                                             *)
Storable(w) ==
    /\ w \in DOMAIN prefixTree
    /\ prefixTree[w].lastSeen > Timeout
    /\ prefixTree[w].dbID = 0
    /\ \A q \in DOMAIN prefixTree :
          IsStrictPrefix(w, q) => prefixTree[q].lastSeen = ZeroTime

(* C27: a sweep upserts only words whose nodes are timed out, hold no dbID *)
(* and have no searched descendant: every record it creates or changes has *)
(* such a word, and the word is not changed; so is every word whose upsert *)
(* the gateway refuses.  It leaves a node that holds a dbID, and the       *)
(* record of that node, as they are; it changes no lastSeen, clears no     *)
(* dbID and no isEndOfWord, and adds and removes no node and no record.    *)
C27_SweepFrame ==
    [][SweepStep =>
        /\ DOMAIN prefixTree' = DOMAIN prefixTree
        /\ DOMAIN searches \subseteq DOMAIN searches'
        /\ \A id \in DOMAIN searches' :
              (id \notin DOMAIN searches \/ searches'[id] # searches[id]) =>
                  /\ Storable(searches'[id].Word)
                  /\ id \in DOMAIN searches =>
                        searches'[id].Word = searches[id].Word
        /\ \A w \in failedInsert' \ failedInsert : Storable(w)
        /\ \A p \in DOMAIN prefixTree :
              /\ prefixTree'[p].lastSeen = prefixTree[p].lastSeen
              /\ prefixTree[p].isEndOfWord => prefixTree'[p].isEndOfWord
              /\ prefixTree[p].dbID # 0 =>
                    /\ prefixTree'[p] = prefixTree[p]
                    /\ prefixTree[p].dbID \in DOMAIN searches =>
                          searches'[prefixTree[p].dbID] =
                              searches[prefixTree[p].dbID]]_vars

(* A sweep has run over a timed-out word whose node holds the record that  *)
(* an extension renamed: the node is as the extension left it.  Another    *)
(* word was stored by a sweep.                                             *)
C27_Witness ==
    /\ ~tickPending
    /\ \E p \in renamed :
          /\ Quiet(p)
          /\ prefixTree[p].dbID # 0
          /\ ~prefixTree[p].isEndOfWord
          /\ searches[prefixTree[p].dbID].SearchCount = 2
          /\ \E w \in storedSince : w # p /\ prefixTree[w].dbID # 0

----------------------------------------------------------------------------
(* Timestamps *)

(* The nodes whose lastSeen is set *)
Stamped(tree) == {p \in DOMAIN tree : tree[p].lastSeen # ZeroTime}

(* C28 as stated: the lastSeen of a node is set if and only if some caller *)
(* submitted the string of the node (as normalized) at least once; the     *)
(* callers being those of this engine, or those of this engine and of the  *)
(* engines that filled the store before it.                                *)
C28_StampedIffSubmitted ==
    \/ Stamped(prefixTree) = Typed
    \/ Stamped(prefixTree) = everTyped \cap DOMAIN prefixTree

(* C28 amended: the lastSeen of a node is set if and only if the string of *)
(* the node (as normalized) was submitted to this engine at least once or  *)
(* was a word the gateway held when the engine was constructed; a call     *)
(* with that string sets it to the time of the call, and it never          *)
(* decreases: a lastSeen that is set stays set, no call and no sweep makes *)
(* it older, and it ages only as time passes.                              *)
C28_StampedIffSubmittedOrLoaded ==
    [][/\ Stamped(prefixTree') = DOMAIN submitted' \cup reloaded'
       /\ \A w \in DOMAIN submitted' : CallOf(w) => prefixTree'[w].lastSeen = 0
       /\ ~Constructed =>
             \A p \in Stamped(prefixTree) :
                 /\ p \in Stamped(prefixTree')
                 /\ prefixTree'[p].lastSeen <= Later(prefixTree[p].lastSeen)
                 /\ (ncalls' = ncalls + 1 \/ SweepStep) =>
                       prefixTree'[p].lastSeen <= prefixTree[p].lastSeen]_vars

(* An engine constructed on a store holds a word it has loaded and that   *)
(* no caller has given it, with its lastSeen set some time ago; a word     *)
(* that was submitted to the engine before it has a node and no lastSeen;  *)
(* and a word a caller has just given it has the time of the call.         *)
C28_Witness ==
    /\ restarts > 0
    /\ \E v \in reloaded \ Typed : prefixTree[v].lastSeen > 0
    /\ \E u \in (everTyped \cap DOMAIN prefixTree) \ Stamped(prefixTree) : TRUE
    /\ \E w \in Typed : prefixTree[w].lastSeen = 0

----------------------------------------------------------------------------
(* Word marks *)

(* C29: every node that holds a dbID has isEndOfWord set, whether a sweep  *)
(* assigned the dbID or an extension moved it onto the node.               *)
C29_IdImpliesEndOfWord ==
    \A p \in DOMAIN prefixTree :
        prefixTree[p].dbID # 0 => prefixTree[p].isEndOfWord

(* C30: the empty string is never persisted: whatever the inputs of     *)
(* LogSearch, those of whitespace only included, the lastSeen of the root  *)
(* is never set and no record of the store has the empty word.             *)
C30_EmptyWordNeverPersisted ==
    /\ prefixTree[<<>>].lastSeen = ZeroTime
    /\ \A i \in DOMAIN searches : searches[i].Word # <<>>

----------------------------------------------------------------------------
(* Reference validity *)

(* C11: a node holds a dbID only if the gateway has acknowledged an upsert *)
(* or a rename for the node's exact string, and the record with that id    *)
(* has the node's string as its word; also when the gateway refuses        *)
(* writes.                                                                 *)
C11_ReferenceValidity ==
    \A p \in DOMAIN prefixTree :
        prefixTree[p].dbID # 0 =>
            /\ p \in everStored \cup renamed
            /\ prefixTree[p].dbID \in DOMAIN searches
            /\ searches[prefixTree[p].dbID].Word = p

(* A node holds the record that was renamed to its word after the gateway  *)
(* had refused that rename.                                                *)
C11_Witness ==
    \E p \in DOMAIN prefixTree :
        /\ prefixTree[p].dbID # 0
        /\ p \in renamed
        /\ p \notin everStored
        /\ \E a \in DOMAIN prefixTree : <<a, p>> \in failedRename

----------------------------------------------------------------------------
(* Storage errors *)

(* The word of this call extends a stored word: the node of a proper       *)
(* prefix is a completed word and holds a dbID.                            *)
ExtendsStored(word) ==
    \E p \in DOMAIN prefixTree \ {<<>>} :
        /\ IsStrictPrefix(p, word)
        /\ prefixTree[p].isEndOfWord
        /\ prefixTree[p].dbID # 0

C14_SelfHealing ==
    [][(SweepStep /\ rejects = {}) =>
        \A pw \in failedRename :
            (Quiet(pw[2]) /\ NeverExtended(pw[2])) =>
                /\ Cardinality({id \in DOMAIN searches' : searches'[id].Word = pw[2]}) = 1
                /\ \A id \in DOMAIN searches' : searches'[id].Word # pw[1]]_vars

(* The word is a candidate of the sweep: it has timed out, no longer word  *)
(* was typed under it and its node holds no dbID.                          *)
Candidate(w) ==
    /\ Quiet(w)
    /\ NeverExtended(w)
    /\ prefixTree[w].dbID = 0

(* After the step the word is stored and its node holds the dbID *)
StoredAfter(w) ==
    /\ prefixTree'[w].dbID # 0
    /\ \E id \in DOMAIN searches' : searches'[id].Word = w

(* C15: when the gateway refuses the upsert of one timed-out word during a *)
(* sweep, the dbID of that word stays empty and the sweep stores every     *)
(* other candidate of the tick; a word that was refused is stored by the   *)
(* first sweep that finds the gateway working, provided no longer word was *)
(* typed under it.                                                         *)
C15_SweepErrorIsolation ==
    [][SweepStep =>
        /\ \A w \in Typed :
              (Candidate(w) /\ w \in rejects) =>
                  /\ prefixTree'[w].dbID = 0
                  /\ \A v \in Typed : (Candidate(v) /\ v \notin rejects) => StoredAfter(v)
        /\ \A w \in failedInsert :
              (Candidate(w) /\ w \notin rejects) => StoredAfter(w)]_vars

(* A word whose upsert was refused while another word was stored by the    *)
(* same sweep has been stored by a later sweep.                            *)
C15_Witness ==
    \E w \in failedInsert :
        /\ storedBeside # {}
        /\ w \notin storedBeside
        /\ w \in storedSince
        /\ prefixTree[w].dbID # 0
        /\ Cardinality(RecordsOf(w)) = 1

----------------------------------------------------------------------------
(* Empty input *)

(* C16: a call of LogSearch with the empty string returns no error and     *)
(* changes nothing: no node, no lastSeen, no record.                       *)
C16_EmptyInputNoOp ==
    [][nempty' = nempty + 1 =>
        /\ ~lastErr'
        /\ prefixTree' = prefixTree
        /\ searches' = searches
        /\ nextID' = nextID]_vars

(* The empty string was submitted, and so was a word *)
C16_Witness ==
    /\ nempty > 0
    /\ Typed # {}
    /\ ~lastErr

----------------------------------------------------------------------------
(* Shutdown *)

(* C17: once Close has closed stopChan, no sweep runs.                     *)
C17_NoSweepAfterClose ==
    [][stopChan => ~SweepStep]_vars

(* C31: once Close has returned, with stopChan closed and the gateway      *)
(* closed, the sweeper sends no upsert to the gateway, whether a tick was  *)
(* waiting or not when Close was called: no sweep after Close changes the  *)
(* records or hands out an id.                                             *)
C31_NoWriteAfterClose ==
    [][stopChan /\ SweepStep => searches' = searches /\ nextID' = nextID]_vars

----------------------------------------------------------------------------
(* The gateway *)

(* The other records are what they were *)
OthersKept(id) ==
    \A i \in DOMAIN searches \ {id} :
        i \in DOMAIN searches' /\ searches'[i] = searches[i]

(* C18: InsertOrReplace(word) on a store that holds a record with the word *)
(* returns the id of such a record, increments its search count and        *)
(* creates no record; on any other store it creates exactly one record,    *)
(* with the word, under an id that was never used; Update(id, newWord)     *)
(* keeps the id of the record, and when the id does not exist it fails and *)
(* leaves the store as it is.                                              *)
C18_UpsertKeyedByWord ==
    [][dbCalls' = dbCalls + 1 =>
        LET r == dbResult' IN
        IF r.op = "InsertOrReplace"
        THEN /\ ~r.err
             /\ OthersKept(r.id)
             /\ IF \E i \in DOMAIN searches : searches[i].Word = r.word
                THEN /\ r.id \in DOMAIN searches
                     /\ searches[r.id].Word = r.word
                     /\ searches'[r.id] =
                          [searches[r.id] EXCEPT !.SearchCount = @ + 1]
                     /\ DOMAIN searches' = DOMAIN searches
                ELSE /\ r.id \notin DOMAIN searches
                     /\ \A i \in DOMAIN searches : i < r.id
                     /\ r.id >= nextID
                     /\ nextID' > r.id
                     /\ DOMAIN searches' = DOMAIN searches \cup {r.id}
                     /\ searches'[r.id].Word = r.word
                     /\ searches'[r.id].ID = r.id
        ELSE IF r.id \in DOMAIN searches
             THEN /\ ~r.err
                  /\ DOMAIN searches' = DOMAIN searches
                  /\ searches'[r.id].ID = r.id
                  /\ searches'[r.id].Word = r.word
                  /\ OthersKept(r.id)
             ELSE /\ r.err
                  /\ searches' = searches
                  /\ nextID' = nextID]_vars

(* The last of the calls was an upsert of a word the store already held,   *)
(* beside another record.                                                  *)
C18_Witness ==
    /\ dbCalls = MaxSubmits
    /\ dbResult.op = "InsertOrReplace"
    /\ searches[dbResult.id].SearchCount > 1
    /\ Cardinality(DOMAIN searches) >= 2
    /\ \A i \in DOMAIN searches : i < nextID

----------------------------------------------------------------------------
(* Version 2 *)

(* The longest word of the calls of the user *)
LongestV2(u) ==
    CHOOSE w \in typedV2[u] : \A v \in typedV2[u] : Len(v) <= Len(w)

(* The user has exactly one stored search, and it is the word *)
OnlySearchV2(u, w) ==
    /\ GetUserSearches(sl_dbV2, u) = {w}
    /\ Cardinality(RecordsOfUser(sl_dbV2, u)) = 1

(* C19: after calls of LogSearchV2 for one user with strictly growing      *)
(* prefixes of a word W in increasing order of length, skipping prefixes   *)
(* or not, the user has exactly one stored search, which is the last word  *)
(* submitted.                                                              *)
C19_V2ProgressiveTyping ==
    \A u \in Users :
        (typedV2[u] # {} /\ growingV2[u]) => OnlySearchV2(u, LongestV2(u))

(* A user typed a, then skipped to aaa *)
C19_Witness ==
    \E u \in Users :
        /\ growingV2[u]
        /\ typedV2[u] = {<<"a">>, <<"a", "a", "a">>}
        /\ OnlySearchV2(u, <<"a", "a", "a">>)
        /\ \E k \in DOMAIN userSearches : userSearches[k].SearchCount = 2

(* The words of the calls of the user are all prefixes of the longest *)
ChainV2(u) == \A v \in typedV2[u] : IsPrefix(v, LongestV2(u))

(* C20: after calls of LogSearchV2 for one user with prefixes of a word W  *)
(* in any order, longest first included, the user has exactly one stored   *)
(* search, which is the longest word submitted: the same as when the calls *)
(* come in order.                                                          *)
C20_V2OrderIndependence ==
    \A u \in Users :
        (typedV2[u] # {} /\ ChainV2(u)) => OnlySearchV2(u, LongestV2(u))

(* A user typed three prefixes, not in increasing order *)
C20_Witness ==
    \E u \in Users :
        /\ ~growingV2[u]
        /\ ChainV2(u)
        /\ typedV2[u] = {<<"a">>, <<"a", "a">>, <<"a", "a", "a">>}
        /\ OnlySearchV2(u, <<"a", "a", "a">>)

(* The records of the user, by key *)
OwnRecords(m, u) ==
    [k \in {j \in DOMAIN m : m[j].UserIdentifier = u} |-> m[k]]

(* C21: a call LogSearchV2(u, word) changes no record of another user, and *)
(* what it makes of the records of u is what it would make of them with    *)
(* the records of the other users absent; so two users who type the same   *)
(* word, or words of which one is a prefix of the other, each keep a       *)
(* record of their own.                                                    *)
C21_V2UserIsolation ==
    [][ncallsV2' = ncallsV2 + 1 =>
        LET u == callerV2' IN
        /\ \A v \in Users \ {u} :
              OwnRecords(userSearches', v) = OwnRecords(userSearches, v)
        /\ \A k \in DOMAIN userSearches' : userSearches'[k].UserIdentifier \in Users
        /\ u \in Users =>
              \/ OwnRecords(userSearches', u) = OwnRecords(userSearches, u)
              \/ \E word \in typedV2'[u] :
                    \E r \in storeOrExtendUserSearch(
                                [userSearches |-> OwnRecords(userSearches, u),
                                 nextID |-> nextIDV2], u, word) :
                        OwnRecords(userSearches', u) = r.db.userSearches]_vars

(* Both users typed a and one of them then typed aa: that user has aa,      *)
(* the other still has a, each in a record of its own.                     *)
C21_Witness ==
    \E u, v \in Users :
        /\ u # v
        /\ callerV2 = u
        /\ GetUserSearches(sl_dbV2, u) = {<<"a", "a">>}
        /\ GetUserSearches(sl_dbV2, v) = {<<"a">>}
        /\ Cardinality(DOMAIN userSearches) = 2
        /\ typedV2[u] = {<<"a">>, <<"a", "a">>}

----------------------------------------------------------------------------
(* Version 2: the stored words of a user *)

(* C32: after any sequence of calls of LogSearchV2, one after the other,   *)
(* on a store that was empty, no stored word of a user is a strict prefix  *)
(* of another stored word of the user, and no two records of a user have   *)
(* the same word.                                                          *)
C32_V2PrefixFree ==
    \A u \in Users :
        \A j, k \in RecordsOfUser(sl_dbV2, u) :
            /\ ~IsStrictPrefix(userSearches[j].SearchWord,
                               userSearches[k].SearchWord)
            /\ j # k => userSearches[j].SearchWord # userSearches[k].SearchWord

(* A user typed a, aa and ab: the record of a was renamed and the user has *)
(* two records, on two branches.                                           *)
C32_Witness ==
    \E u \in Users :
        /\ typedV2[u] = {<<"a">>, <<"a", "a">>, <<"a", "b">>}
        /\ GetUserSearches(sl_dbV2, u) = {<<"a", "a">>, <<"a", "b">>}
        /\ Cardinality(RecordsOfUser(sl_dbV2, u)) = 2

(* C33: when calls of LogSearchV2 for one user run in several goroutines,  *)
(* the read of the user's searches and the write that follows it being     *)
(* separate operations on the store, every call returns without an error,  *)
(* and with all calls returned no stored word of the user is a strict      *)
(* prefix of another stored word of the user.                              *)
C33_V2Concurrent ==
    /\ ~lastErrV2
    /\ (\A c \in Callers : pcV2[c] = "idle") =>
          \A u \in Users :
              \A j, k \in RecordsOfUser(sl_dbV2, u) :
                  ~IsStrictPrefix(userSearches[j].SearchWord,
                                  userSearches[k].SearchWord)

----------------------------------------------------------------------------
(* Serialization *)

Writers == Callers \cup {"sweeper"}

(* The goroutine is between Lock and Unlock *)
WriterInside(g) == pc[g] \in {"build", "seen", "extend", "loop", "unlock"}

(* GetStoredSearches is between RLock and RUnlock *)
ReaderInside == pc["reader"] \in {"read", "unlock"}

(* The trie and the store are what the whole of LogSearch makes of the     *)
(* state the caller found when it took the lock.                           *)
WholeLogSearch(c) ==
    LET seen == [BuildPath(snapshot.tree, arg[c]) EXCEPT ![arg[c]].lastSeen = 0]
        r == handleWordExtension(seen, snapshot.db, arg[c])
    IN  /\ prefixTree = r.tree
        /\ searches = r.db.searches
        /\ nextID = r.db.nextID
        /\ lastErr = r.err

(* The trie and the store are what the whole of processTimedOutWords can   *)
(* make of the state the sweeper found when it took the lock.              *)
WholeSweep ==
    \E order \in Orders(findAllTimedOutWords(snapshot.tree, <<>>, Timeout)) :
        \E st \in processInOrder({[tree |-> snapshot.tree, db |-> snapshot.db,
                                  log |-> {}, failed |-> {}]}, order) :
            /\ prefixTree = st.tree
            /\ searches = st.db.searches
            /\ nextID = st.db.nextID

(* C12: LogSearch calls and the sweep exclude one another over the trie:   *)
(* at most one of them is between Lock and Unlock, and none while          *)
(* GetStoredSearches reads; when one unlocks, the trie and the store are   *)
(* the result of the whole operation on the state it found, so every state *)
(* between operations is the result of whole operations in some order; and *)
(* only the holder of the lock changes the trie or the store.              *)
C12_Serialization ==
    [][/\ \A g, h \in Writers : (WriterInside(g) /\ WriterInside(h)) => g = h
       /\ \A g \in Writers : WriterInside(g) => (~ReaderInside /\ mutexWriter = g)
       /\ \A c \in Callers :
             (pc[c] = "unlock" /\ pc'[c] = "idle") => WholeLogSearch(c)
       /\ (pc["sweeper"] = "unlock" /\ pc'["sweeper"] = "idle") => WholeSweep
       /\ (pc["reader"] = "read" /\ pc'["reader"] = "unlock") =>
             (snapshot = "none" /\ readResult' = StoredWords)
       /\ (searches' # searches \/ DOMAIN prefixTree' # DOMAIN prefixTree) =>
             (mutexWriter # "none" /\ mutexWriter' = mutexWriter)]_vars

(* A caller holds the lock with the node of its word built and not yet     *)
(* marked, while the other caller and the sweeper wait for the lock.       *)
C12_Witness ==
    \E c, d \in Callers :
        /\ c # d
        /\ pc[c] = "seen"
        /\ prefixTree[arg[c]].lastSeen = ZeroTime
        /\ pc[d] = "lock"
        /\ pc["sweeper"] = "lock"
        /\ mutexWriter = c

=============================================================================
